---------------------------- MODULE Spec2Model ----------------------------
(***************************************************************************)
(* A model of the ZoneMTA "Wild Duck MSA" plugin (src/index.js).           *)
(*                                                                         *)
(* The plugin registers hooks with the host MTA.  Every hook is a chain of *)
(* callbacks: each external call (identity store, counter store, archive   *)
(* sink, body stream, setImmediate) suspends the hook, and the callback    *)
(* that resumes it is one action of the model.  The stores are shared by   *)
(* all sessions; their answers are the only interleaving points.           *)
(*                                                                         *)
(* Strings that the code takes apart (addresses) are sequences of          *)
(* one-character strings; other strings are opaque.                        *)
(***************************************************************************)
EXTENDS Integers, Sequences, FiniteSets, TLC

VARIABLES
    dbUsers,      \* users collection: username -> user document, or NoDoc
    dbAddresses,  \* addresses collection: set of [address, user] documents
    redisCount,   \* counter store: value under the key 'wdr:' + user._id
    users,        \* the WeakMap of line 19: key object -> cached user document
    session,      \* the SMTP sessions: [user, interface]
    rcpt,         \* the smtp:rcpt_to invocation of each session
    win,          \* history of the current counter window
    auth,         \* the smtp:auth invocation of each session
    envelope,     \* the envelope of the message in flight
    hdr,          \* the message:headers invocation for the envelope
    que,          \* the message:queue invocation for the envelope
    config,       \* app.config: the MX override (mx, mxPort, zoneAddress)
    delivery,     \* the delivery handed to the sender hooks
    snd,          \* the sender:headers invocation for the delivery
    fch,          \* the sender:fetch invocation for the delivery
    norm,         \* an address and what normalizeAddress made of it
    hooks         \* the hook points the host calls in this run

storeVars == <<dbUsers, dbAddresses, redisCount>>
rcptVars  == <<users, session, rcpt, win>>
msgVars   == <<envelope, hdr, que>>
sendVars  == <<config, delivery, snd, fch>>
vars      == <<storeVars, rcptVars, auth, msgVars, sendVars, norm, hooks>>

---------------------------------------------------------------------------
(* Bounds of the model *)

NumSessions == 2     \* concurrent SMTP sessions
MaxCap      == 2     \* largest recipient cap a user document carries
MaxCalls    == 3     \* ttlcounter calls made within one counter window
MaxChunks   == 2     \* chunks the body stream of a message delivers
MaxRuns     == 2     \* runs of sender:headers on one delivery
MaxLen      == 3     \* characters of an address given to normalizeAddress

---------------------------------------------------------------------------
(* Values *)

Null  == "null"      \* JavaScript null / undefined, where a string is expected
Alice == "alice"     \* the one account of the model
NoDoc == [_id |-> Null]   \* null / undefined, where a document is expected

Sessions == 1 .. NumSessions

\* app.config.interfaces, lines 36-37
interfaces    == {"feeder"}
allInterfaces == "*" \in interfaces

\* The interfaces a session may arrive on; "mx" is not configured.
Interfaces == {"feeder", "mx"}

\* An Error object: what it reports and the responseCode attached to it
\* (0: none).  The wording of a message is not modelled.
Err(message, code) == [message |-> message, responseCode |-> code]
NoErr == Err("", 0)

ErrDb           == Err("identity store error", 0)
ErrRedis        == Err("counter store error", 0)
ErrInsufficient == Err("Insufficient user info", 0)
ErrNotFound     == Err("User was not found", 0)

\* A user document as projected by getUser (lines 302-308).
UserDoc(addr, quota, used, recipients) ==
    [_id |-> Alice, username |-> Alice, address |-> addr,
     quota |-> quota, storageUsed |-> used, recipients |-> recipients]

MainAddress == <<"a", "@", "d">>

\* A quota that is not set is <<>>, a quota of n is <<n>>.
RcptDocs == { UserDoc(MainAddress, <<>>, 0, r) : r \in 0 .. MaxCap }

\* What a session may be: authenticated or not, on a configured interface or
\* not.  Sessions are interchangeable, so Init lists each combination once.
Profiles ==
    << [user |-> Alice, interface |-> "feeder"],
       [user |-> Null,  interface |-> "feeder"],
       [user |-> Alice, interface |-> "mx"],
       [user |-> Null,  interface |-> "mx"] >>

\* The key objects of the WeakMap: session objects and envelope objects.
SessionKey(s) == <<"session", s>>
EnvelopeKey   == <<"envelope", 1>>
Keys          == {SessionKey(s) : s \in Sessions} \cup {EnvelopeKey}

---------------------------------------------------------------------------
(* checkInterface, lines 277-282 *)

checkInterface(iface) == allInterfaces \/ iface \in interfaces

---------------------------------------------------------------------------
(* getUser, lines 284-322.  The part that runs before the store is asked   *)
(* (GetUserSync) and the callback of findOne (GetUserReply).               *)

GetUserSyncNoCache(key, envUser) ==
    IF envUser = Null
    THEN [kind |-> "err", err |-> ErrInsufficient, user |-> NoDoc]
    ELSE [kind |-> "query", err |-> NoErr, user |-> NoDoc]

\* lines 285-299: a cache hit, an error, or a query for envelope.user
GetUserSync(key, envUser) ==
    IF users[key] # NoDoc
    THEN [kind |-> "hit", err |-> NoErr, user |-> users[key]]
    ELSE IF envUser = Null
         THEN [kind |-> "err", err |-> ErrInsufficient, user |-> NoDoc]
         ELSE [kind |-> "query", err |-> NoErr, user |-> NoDoc]

\* What findOne may answer for `username`: an error, or the document now stored.
FindUserAnswers(username) ==
    { [err |-> ErrDb, doc |-> NoDoc], [err |-> NoErr, doc |-> dbUsers[username]] }

\* lines 309-321: what getUser hands to its callback for a findOne answer
GetUserReply(answer) ==
    IF answer.err # NoErr
    THEN [err |-> answer.err, user |-> NoDoc, cache |-> FALSE]
    ELSE IF answer.doc = NoDoc
         THEN [err |-> ErrNotFound, user |-> NoDoc, cache |-> FALSE]
         ELSE [err |-> NoErr, user |-> answer.doc, cache |-> TRUE]

---------------------------------------------------------------------------
(* The counter store.  ttlcounter(key, cost, ceiling) is one atomic        *)
(* operation of the store: it refuses when the window is used up and       *)
(* counts the cost otherwise.                                              *)

ttlcounter(count, cost, ceiling) ==
    IF count >= ceiling
    THEN [success |-> FALSE, value |-> count, count |-> count]
    ELSE [success |-> TRUE, value |-> count + cost, count |-> count + cost]

---------------------------------------------------------------------------
(* smtp:rcpt_to, lines 138-183 *)

\* One invocation of the hook.  pc: where it is suspended; err: the error
\* its `next` was (or is about to be) called with, NoErr for next();
\* ceiling: the ceiling of its ttlcounter call while that is in flight.
\* pc is "idle" until the first RCPT TO of a message and "done" between
\* two RCPT TO of the same message.  nexts: how often this invocation has
\* called next.
RcptSlot(pc, err) == [pc |-> pc, err |-> err, ceiling |-> 0, nexts |-> 0]

RcptIdle == RcptSlot("idle", NoErr)

\* The history of a fresh counter window: the ttlcounter calls it has
\* answered, the recipient caps of the identities that made them, how many
\* the hook accepted and whether it refused one.
FreshWindow == [calls |-> 0, limits |-> {}, accepted |-> 0, rejected |-> FALSE]

\* lines 173-175: the denial
ErrLimit == Err("You reached a daily sending limit for your account", 550)

RcptCeilingOffByOne(user) == user.recipients + 1

\* line 151: the ceiling handed to ttlcounter
RcptCeiling(user) == user.recipients

\* lines 147-151, with the user in hand: no cap, or ask the counter store
RcptWithUser(slot, user) ==
    IF user.recipients = 0
    THEN [slot EXCEPT !.pc = "done", !.nexts = @ + 1]
    ELSE [slot EXCEPT !.pc = "ttlcounter", !.ceiling = RcptCeiling(user)]

\* lines 143-145: getUser reported an error
RcptUserError(slot, err) ==
    [slot EXCEPT !.pc = "done", !.err = NoErr, !.nexts = @ + 1]

\* lines 152-154: the counter store reported an error
RcptCounterError(slot, err) ==
    [slot EXCEPT !.pc = "done", !.err = err, !.ceiling = 0, !.nexts = @ + 1]

RcptCounterResultNoReturn(slot, result) ==
    IF ~result.success
    THEN [slot EXCEPT !.pc = "immediate", !.err = ErrLimit, !.ceiling = 0,
                      !.nexts = @ + 1]
    ELSE [slot EXCEPT !.pc = "done", !.err = NoErr, !.ceiling = 0,
                      !.nexts = @ + 1]

RcptCounterResultIgnored(slot, result) ==
    [slot EXCEPT !.pc = "done", !.err = NoErr, !.ceiling = 0, !.nexts = @ + 1]

\* lines 156-180: the counter store answered
RcptCounterResult(slot, result) ==
    IF ~result.success
    THEN [slot EXCEPT !.pc = "immediate", !.err = ErrLimit, !.ceiling = 0]
    ELSE [slot EXCEPT !.pc = "done", !.err = NoErr, !.ceiling = 0,
                      !.nexts = @ + 1]

\* The invocations that may still call ttlcounter.
InFlight == { s \in Sessions : rcpt[s].pc \in {"getUser", "ttlcounter"} }

\* The host calls the hook for the next RCPT TO of session s (lines 139-142).
RcptInvoke(s) ==
    /\ rcpt[s].pc \in {"idle", "done"}
    /\ win.calls + Cardinality(InFlight) < MaxCalls
    /\ LET slot == RcptIdle
           g    == GetUserSync(SessionKey(s), session[s].user)
       IN  rcpt' = [rcpt EXCEPT ![s] =
                IF ~checkInterface(session[s].interface)
                THEN [slot EXCEPT !.pc = "done", !.nexts = @ + 1]
                ELSE IF g.kind = "err" THEN RcptUserError(slot, g.err)
                ELSE IF g.kind = "hit"
                     THEN RcptWithUser(slot, g.user)
                ELSE [slot EXCEPT !.pc = "getUser"]]
    /\ UNCHANGED <<hooks, sendVars, norm, storeVars, users, session, win, auth, msgVars>>

\* findOne answers getUser (lines 309-321), which calls back line 142.
RcptUserAnswer(s) ==
    /\ rcpt[s].pc = "getUser"
    /\ \E answer \in FindUserAnswers(session[s].user) :
         LET r == GetUserReply(answer)
         IN  /\ users' = IF r.cache
                         THEN [users EXCEPT ![SessionKey(s)] = r.user]
                         ELSE users
             /\ rcpt' = [rcpt EXCEPT ![s] =
                    IF r.err # NoErr THEN RcptUserError(rcpt[s], r.err)
                    ELSE RcptWithUser(rcpt[s], r.user)]
    /\ UNCHANGED <<hooks, sendVars, norm, storeVars, session, win, auth, msgVars>>

\* The counter store fails (lines 152-154).
RcptCounterFails(s) ==
    /\ rcpt[s].pc = "ttlcounter"
    /\ rcpt' = [rcpt EXCEPT ![s] = RcptCounterError(rcpt[s], ErrRedis)]
    /\ UNCHANGED <<hooks, sendVars, norm, storeVars, users, session, win, auth, msgVars>>

\* The counter store runs ttlcounter and the hook's callback gets the result
\* (lines 151-181).
RcptCounterAnswer(s) ==
    /\ rcpt[s].pc = "ttlcounter"
    /\ LET ceiling == rcpt[s].ceiling
           result  == ttlcounter(redisCount, 1, ceiling)
           slot    == RcptCounterResult(rcpt[s], result)
       IN  /\ redisCount' = result.count
           /\ win' = [calls    |-> win.calls + 1,
                      limits   |-> win.limits \cup {users[SessionKey(s)].recipients},
                      accepted |-> win.accepted + (IF slot.err = NoErr THEN 1 ELSE 0),
                      rejected |-> win.rejected \/ slot.err # NoErr]
           /\ rcpt' = [rcpt EXCEPT ![s] = slot]
    /\ UNCHANGED <<hooks, sendVars, norm, dbUsers, dbAddresses, users, session, auth, msgVars>>

\* setImmediate fires and delivers the denial (line 176).
RcptImmediate(s) ==
    /\ rcpt[s].pc = "immediate"
    /\ rcpt' = [rcpt EXCEPT ![s].pc = "done", ![s].nexts = @ + 1]
    /\ UNCHANGED <<hooks, sendVars, norm, storeVars, users, session, win, auth, msgVars>>

\* The client starts another message on the same session: the session object
\* stays, and with it what the WeakMap holds for it.
NewMessage(s) ==
    /\ rcpt[s].pc = "done"
    /\ rcpt' = [rcpt EXCEPT ![s] = RcptIdle]
    /\ UNCHANGED <<hooks, sendVars, norm, storeVars, users, session, win, auth, msgVars>>

\* Another client of the identity store changes or removes the account.
UpdateUser(docs) ==
    /\ \E doc \in (docs \cup {NoDoc}) \ {dbUsers[Alice]} :
         dbUsers' = [dbUsers EXCEPT ![Alice] = doc]
    /\ UNCHANGED <<hooks, sendVars, norm, dbAddresses, redisCount, rcptVars, auth, msgVars>>

\* The counter's key expires: the window ends.
WindowExpires ==
    /\ redisCount > 0
    /\ redisCount' = 0
    /\ win' = FreshWindow
    /\ UNCHANGED <<hooks, sendVars, norm, dbUsers, dbAddresses, users, session, rcpt, auth, msgVars>>


---------------------------------------------------------------------------
(* smtp:auth, lines 40-61 *)

\* The usernames a client may submit, and those the store may return.
Submitted     == {"Alice", "alice"}
StoreNames    == {"alice", "alice@d"}

\* What userHandler.authenticate may hand to its callback: an error, no
\* result, or an account with its scope and whether two-factor is enabled.
AuthResults ==
    [scope : {"master", "smtp"}, enabled2fa : BOOLEAN, username : StoreNames]
AuthAnswers ==
    {[err |-> ErrDb, result |-> NoDoc]}
        \cup {[err |-> NoErr, result |-> r] : r \in AuthResults \cup {NoDoc}}

\* lines 53-54
ErrAuth == Err("Authentication failed", 535)

\* One invocation of the hook.  username: auth.username; err: what next was
\* called with; answer: what authenticate handed to the callback; nexts:
\* how often this invocation has called next.
AuthSlot(pc, username) ==
    [pc |-> pc, username |-> username, err |-> NoErr,
     answer |-> [err |-> NoErr, result |-> NoDoc], nexts |-> 0]

AuthIdle == AuthSlot("idle", Null)

AuthCallbackNo2faCheck(slot, answer) ==
    IF answer.err # NoErr
    THEN [slot EXCEPT !.pc = "done", !.err = answer.err, !.answer = answer,
                      !.nexts = @ + 1]
    ELSE IF answer.result = NoDoc
    THEN [slot EXCEPT !.pc = "done", !.err = ErrAuth, !.answer = answer,
                      !.nexts = @ + 1]
    ELSE [slot EXCEPT !.pc = "done", !.username = answer.result.username,
                      !.answer = answer, !.nexts = @ + 1]

\* lines 48-60: the callback of authenticate
AuthCallback(slot, answer) ==
    IF answer.err # NoErr
    THEN [slot EXCEPT !.pc = "done", !.err = answer.err, !.answer = answer,
                      !.nexts = @ + 1]
    ELSE IF \/ answer.result = NoDoc
            \/ (answer.result.scope = "master" /\ answer.result.enabled2fa)
    THEN [slot EXCEPT !.pc = "done", !.err = ErrAuth, !.answer = answer,
                      !.nexts = @ + 1]
    ELSE [slot EXCEPT !.pc = "done", !.username = answer.result.username,
                      !.answer = answer, !.nexts = @ + 1]

\* The host calls the hook for an AUTH command (lines 41-47).
AuthInvoke(s) ==
    /\ auth[s].pc = "idle"
    /\ \E name \in Submitted :
         auth' = [auth EXCEPT ![s] =
            IF ~checkInterface(session[s].interface)
            THEN [AuthSlot("done", name) EXCEPT !.nexts = 1]
            ELSE AuthSlot("authenticate", name)]
    /\ UNCHANGED <<hooks, sendVars, norm, storeVars, rcptVars, msgVars>>

\* authenticate answers (lines 48-60).
AuthAnswer(s) ==
    /\ auth[s].pc = "authenticate"
    /\ \E answer \in AuthAnswers :
         auth' = [auth EXCEPT ![s] = AuthCallback(auth[s], answer)]
    /\ UNCHANGED <<hooks, sendVars, norm, storeVars, rcptVars, msgVars>>

\* The client gives up the attempt and may send AUTH again.
AuthAgain(s) ==
    /\ auth[s].pc = "done"
    /\ auth[s].err # NoErr
    /\ auth' = [auth EXCEPT ![s] = AuthIdle]
    /\ UNCHANGED <<hooks, sendVars, norm, storeVars, rcptVars, msgVars>>

---------------------------------------------------------------------------
(* normalizeAddress, lines 395-420.  A string is a sequence of characters. *)
(* "o^" is one precomposed character, <<"o", "^">> the same letter written *)
(* with a combining mark; "xn--o" is one domain label in its ASCII         *)
(* (punycode) form, which encodes the label "o^", and "xn--q" one that     *)
(* encodes the upper-case label "O^" (as xn--nda encodes o-umlaut and      *)
(* xn--qca O-umlaut).                                                      *)

Max(S) == CHOOSE x \in S : \A y \in S : y <= x
Min(S) == CHOOSE x \in S : \A y \in S : x <= y

\* String.prototype.lastIndexOf, counted from 1; 0 where JavaScript gives -1
LastIndexOf(str, ch) ==
    LET hits == { i \in 1 .. Len(str) : str[i] = ch }
    IN  IF hits = {} THEN 0 ELSE Max(hits)

\* String.prototype.normalize('NFC'): a letter and its combining mark compose
RECURSIVE NFC(_)
NFC(str) ==
    IF Len(str) < 2 THEN str
    ELSE IF str[2] = "^" /\ str[1] \in {"o", "O"}
         THEN <<(IF str[1] = "o" THEN "o^" ELSE "O^")>> \o NFC(SubSeq(str, 3, Len(str)))
         ELSE <<str[1]>> \o NFC(Tail(str))

\* replace(/\+.*$/, ''): everything from the first '+' goes
StripTag(str) ==
    LET hits == { i \in 1 .. Len(str) : str[i] = "+" }
    IN  IF hits = {} THEN str ELSE SubSeq(str, 1, Min(hits) - 1)

LowerChar(ch) ==
    CASE ch = "A" -> "a" [] ch = "B" -> "b" [] ch = "C" -> "c" [] ch = "D" -> "d"
      [] ch = "O" -> "o" [] ch = "O^" -> "o^" [] ch = "XN--O" -> "xn--o"
      [] OTHER -> ch

\* String.prototype.toLowerCase
ToLowerCase(str) == [i \in 1 .. Len(str) |-> LowerChar(str[i])]

\* String.prototype.trim
Trim(str) ==
    LET solid == { i \in 1 .. Len(str) : str[i] # " " }
    IN  IF solid = {} THEN <<>> ELSE SubSeq(str, Min(solid), Max(solid))

\* punycode.toUnicode: every label in ASCII form becomes the label it encodes
ToUnicode(str) ==
    [i \in 1 .. Len(str) |-> CASE str[i] = "xn--o" -> "o^"
                               [] str[i] = "xn--q" -> "O^"
                               [] OTHER -> str[i]]

\* lines 395-419, for a string argument and without withNames
normalizeAddress(address) ==
    IF address = <<>> THEN <<>>
    ELSE LET at     == LastIndexOf(address, "@")
             user   == Trim(ToLowerCase(StripTag(NFC(SubSeq(address, 1, at - 1)))))
             domain == Trim(ToLowerCase(SubSeq(address, at + 1, Len(address))))
         IN  user \o <<"@">> \o ToUnicode(domain)

\* The characters of the addresses normalizeAddress is tried on.
NormChars == {"a", "A", "+", " ", "@", "o", "^", "xn--o", "xn--q"}

\* Every string of at most MaxLen of these characters.
NormInputs == UNION { [1 .. n -> NormChars] : n \in 0 .. MaxLen }

\* Nothing applied yet to `input`.
NormStart(input) == [input |-> input, once |-> <<>>, twice |-> <<>>, times |-> 0]

\* normalizeAddress is applied to the address.
NormApply ==
    /\ norm.times = 0
    /\ norm' = [norm EXCEPT !.once = normalizeAddress(norm.input), !.times = 1]
    /\ UNCHANGED <<hooks, storeVars, rcptVars, auth, msgVars, sendVars>>

\* normalizeAddress is applied to what it returned.
NormAgain ==
    /\ norm.times = 1
    /\ norm' = [norm EXCEPT !.twice = normalizeAddress(norm.once), !.times = 2]
    /\ UNCHANGED <<hooks, storeVars, rcptVars, auth, msgVars, sendVars>>

---------------------------------------------------------------------------
(* The envelope and its headers *)

\* The value of a header: absent, or the address list it holds.  An entry
\* of the list is a mailbox (name, address) or a group.
HeaderValue(list) == [present |-> TRUE, list |-> list]
NoHeader == [present |-> FALSE, list |-> <<>>]
Mailbox(name, address) == [name |-> name, address |-> address, group |-> FALSE]
Group(name) == [name |-> name, address |-> <<>>, group |-> TRUE]

\* addressparser (nodemailer): the entries of a header value
addressparser(value) == value.list

\* MimeNode._convertAddresses: the header value that lists these mailboxes
convertAddresses(list) ==
    HeaderValue([i \in 1 .. Len(list) |-> Mailbox(list[i].name, list[i].address)])

\* headerFromObj: undefined, or an object with (maybe) a name and an address
NoObj == [defined |-> FALSE, name |-> "", address |-> <<>>]
Obj(name, address) == [defined |-> TRUE, name |-> name, address |-> address]

\* lines 70-82
HeaderFromObj(headerFrom) ==
    IF ~headerFrom.present THEN NoObj
    ELSE LET headerFromList == addressparser(headerFrom)
         IN  IF Len(headerFromList) = 0 THEN NoObj
             ELSE IF headerFromList[1].group THEN Obj("", <<>>)
             ELSE Obj(headerFromList[1].name, headerFromList[1].address)

AddrA == <<"a", "@", "d">>            \* the account's addresses
AddrC == <<"c", "@", "d">>
AddrB == <<"b", "@", "d">>            \* somebody else's address

\* The addresses collection: the account owns a@d and c@d.
Addresses == { [address |-> AddrA, user |-> Alice], [address |-> AddrC, user |-> Alice],
               [address |-> AddrB, user |-> "bob"] }

\* What findOne may answer on the addresses collection: an error, or whether
\* there is a document with this address and this user.
FindAddressAnswers(address, user) ==
    { [err |-> ErrDb, found |-> FALSE],
      [err |-> NoErr,
       found |-> \E doc \in dbAddresses : doc.address = address /\ doc.user = user] }

\* MAIL FROM as the client may give it.
EnvelopeFroms == { <<"A", "+", "x", "@", "D">>, AddrB, AddrC }

\* The From: header as the message may carry it.
HeaderFroms ==
    { NoHeader,
      HeaderValue(<<>>),
      HeaderValue(<<Group("team")>>),
      HeaderValue(<<Mailbox("Al", <<"C", "@", "d">>)>>),
      HeaderValue(<<Mailbox("Al", AddrB), Mailbox("Cy", AddrC)>>) }

\* The user documents of this part.  Quota and storageUsed vary; the main
\* address is one or the other of the account's addresses, or one that the
\* addresses collection does not list for the account (the two collections
\* are written independently of each other, and not by the plugin).
MsgDocs ==
    { UserDoc(AddrA, q[1], q[2], 0) :
        q \in { <<<<>>, 2>>, <<<<0>>, 2>>, <<<<1>>, 2>>, <<<<1>>, 0>> } }
      \cup { UserDoc(AddrC, <<>>, 2, 0), UserDoc(AddrB, <<>>, 2, 0) }

---------------------------------------------------------------------------
(* message:headers, lines 64-135 *)

\* One invocation of the hook.  headerFrom, obj: the locals headerFrom and
\* headerFromObj; user: the user getUser handed over.  History: before, the
\* envelope as it was when the hook was invoked, and whether the hook had
\* already completed without error on this envelope (again).
HdrSlot(pc, err) ==
    [pc |-> pc, err |-> err, headerFrom |-> NoHeader, obj |-> NoObj,
     user |-> NoDoc, nexts |-> 0,
     before |-> [from |-> <<>>, orig |-> NoHeader, again |-> FALSE]]

HdrIdle == HdrSlot("idle", NoErr)

\* next(err) and next(): the hook is over
HdrFail(slot, err) ==
    [slot EXCEPT !.pc = "done", !.err = err, !.user = NoDoc, !.nexts = @ + 1]
HdrDone(slot) ==
    [slot EXCEPT !.pc = "done", !.user = NoDoc, !.nexts = @ + 1]

HdrEnvelopeQueryRaw(env) == env.from

\* lines 89-92: the address the first findOne asks for
HdrEnvelopeQuery(env) == normalizeAddress(env.from)

\* lines 108-111: the address the second findOne asks for
HdrFromQuery(obj) == normalizeAddress(obj.address)

\* lines 98-102: the envelope after the first findOne answered
HdrCorrectEnvelope(env, user, found) ==
    IF ~found THEN [env EXCEPT !.from = user.address] ELSE env

HdrRewriteFromStale(env, slot) ==
    LET obj == [slot.obj EXCEPT !.address = slot.before.from]
    IN  [env EXCEPT !.headers.from = convertAddresses(<<obj>>),
                    !.headers.origFrom = slot.headerFrom]

\* lines 123-129: the From: header takes the envelope sender, the original
\* value goes to X-WildDuck-Original-From
HdrRewriteFrom(env, slot) ==
    LET obj == [slot.obj EXCEPT !.address = env.from]
    IN  [env EXCEPT !.headers.from = convertAddresses(<<obj>>),
                    !.headers.origFrom = slot.headerFrom]

\* No hook of the envelope is running and nothing of one is pending.
AtRest ==
    /\ hdr.pc \in {"idle", "done"}
    /\ que.pc \in {"idle", "done"}
    /\ que.archive # "pending"

\* The host calls the hook (lines 65-84).
HdrInvoke ==
    /\ AtRest
    /\ LET headerFrom == envelope.headers.from
           slot == [HdrIdle EXCEPT !.headerFrom = headerFrom,
                                   !.obj = HeaderFromObj(headerFrom),
                                   !.before = [from |-> envelope.from,
                                               orig |-> envelope.headers.origFrom,
                                               again |-> /\ hdr.pc = "done"
                                                         /\ hdr.err = NoErr
                                                         /\ checkInterface(envelope.interface)]]
           g == GetUserSync(EnvelopeKey, envelope.user)
       IN  hdr' = IF ~checkInterface(envelope.interface)
                  THEN [slot EXCEPT !.pc = "done", !.nexts = @ + 1]
                  ELSE IF g.kind = "err" THEN HdrFail(slot, g.err)
                  ELSE IF g.kind = "hit"
                       THEN [slot EXCEPT !.pc = "findEnvelope", !.user = g.user]
                  ELSE [slot EXCEPT !.pc = "getUser"]
    /\ UNCHANGED <<hooks, sendVars, norm, storeVars, rcptVars, auth, envelope, que>>

\* findOne answers getUser, which calls back line 84.
HdrUserAnswer ==
    /\ hdr.pc = "getUser"
    /\ \E answer \in FindUserAnswers(envelope.user) :
         LET r == GetUserReply(answer)
         IN  /\ users' = IF r.cache THEN [users EXCEPT ![EnvelopeKey] = r.user]
                         ELSE users
             /\ hdr' = IF r.err # NoErr THEN HdrFail(hdr, r.err)
                       ELSE [hdr EXCEPT !.pc = "findEnvelope", !.user = r.user]
    /\ UNCHANGED <<hooks, sendVars, norm, storeVars, session, rcpt, win, auth, envelope, que>>

\* The first findOne on addresses answers (lines 92-111).
HdrEnvelopeAnswer ==
    /\ hdr.pc = "findEnvelope"
    /\ \E answer \in FindAddressAnswers(HdrEnvelopeQuery(envelope), hdr.user._id) :
         IF answer.err # NoErr
         THEN hdr' = HdrFail(hdr, answer.err) /\ envelope' = envelope
         ELSE /\ envelope' = HdrCorrectEnvelope(envelope, hdr.user, answer.found)
              /\ hdr' = IF ~hdr.obj.defined THEN HdrDone(hdr)
                        ELSE [hdr EXCEPT !.pc = "findFrom"]
    /\ UNCHANGED <<hooks, sendVars, norm, storeVars, rcptVars, auth, que>>

\* The second findOne on addresses answers (lines 111-132).
HdrFromAnswer ==
    /\ hdr.pc = "findFrom"
    /\ \E answer \in FindAddressAnswers(HdrFromQuery(hdr.obj), hdr.user._id) :
         IF answer.err # NoErr
         THEN hdr' = HdrFail(hdr, answer.err) /\ envelope' = envelope
         ELSE /\ envelope' = IF answer.found THEN envelope
                             ELSE HdrRewriteFrom(envelope, hdr)
              /\ hdr' = HdrDone(hdr)
    /\ UNCHANGED <<hooks, sendVars, norm, storeVars, rcptVars, auth, que>>

---------------------------------------------------------------------------
(* message:queue, lines 186-251 *)

\* A chunk of the archived copy: the Return-Path and Received lines built
\* from the envelope (only the sender is modelled), the headers, or the
\* n-th chunk of the body.
Chunk(kind, from, n) == [kind |-> kind, from |-> from, n |-> n]

\* What messageHandler.add was called with: meta.from and raw.
NotAdded == [called |-> FALSE, from |-> <<>>, raw |-> <<>>]

\* One invocation of the hook.  chunks: the local of line 202; read: how
\* many chunks of the body the stream has delivered; immediate: next is
\* scheduled by setImmediate; archive: "none", "pending" while
\* messageHandler.add is at work, then the line its callback logged;
\* added: the call of messageHandler.add.
QueSlot(pc, err) ==
    [pc |-> pc, err |-> err, user |-> NoDoc, chunks |-> <<>>, read |-> 0,
     immediate |-> FALSE, archive |-> "none", added |-> NotAdded, nexts |-> 0]

QueIdle == QueSlot("idle", NoErr)

ErrStream == Err("body stream error", 0)

QueFailSubmits(slot, err) ==
    [slot EXCEPT !.pc = "done", !.err = err, !.user = NoDoc, !.nexts = @ + 1,
                 !.archive = "pending",
                 !.added = [called |-> TRUE, from |-> <<>>, raw |-> slot.chunks]]

\* lines 193 and 216: next(err)
QueFail(slot, err) ==
    [slot EXCEPT !.pc = "done", !.err = err, !.user = NoDoc, !.nexts = @ + 1]

QueOverQuotaReversed(user) ==
    /\ user.quota # <<>>
    /\ user.quota[1] # 0
    /\ user.storageUsed < user.quota[1]

\* line 196: user.quota && user.storageUsed > user.quota
QueOverQuota(user) ==
    /\ user.quota # <<>>
    /\ user.quota[1] # 0
    /\ user.storageUsed > user.quota[1]

QueWithUserSubmittedSender(slot, user, env) ==
    IF QueOverQuota(user)
    THEN [slot EXCEPT !.pc = "done", !.user = user, !.nexts = @ + 1]
    ELSE [slot EXCEPT !.pc = "stream", !.user = user,
                      !.chunks = << Chunk("trace", hdr.before.from, 0),
                                    Chunk("headers", <<>>, 0) >>]

\* lines 196-216, with the user in hand: skip, or start reading the body
QueWithUser(slot, user, env) ==
    IF QueOverQuota(user)
    THEN [slot EXCEPT !.pc = "done", !.user = user, !.nexts = @ + 1]
    ELSE [slot EXCEPT !.pc = "stream", !.user = user,
                      !.chunks = << Chunk("trace", env.from, 0),
                                    Chunk("headers", <<>>, 0) >>]

QueBodyEndedAwaits(slot, env) ==
    [slot EXCEPT !.pc = "ended", !.archive = "pending",
                 !.added = [called |-> TRUE, from |-> env.from, raw |-> slot.chunks]]

\* lines 217-240: the body has ended
QueBodyEnded(slot, env) ==
    [slot EXCEPT !.pc = "ended", !.immediate = TRUE, !.archive = "pending",
                 !.added = [called |-> TRUE, from |-> env.from, raw |-> slot.chunks]]

\* lines 240-248: what the callback of messageHandler.add logs
ArchiveOutcomes == {"MSAUPLFAIL", "MSAUPLSUCC", "MSAUPLSKIP"}

\* The host calls the hook (lines 187-191).
QueInvoke ==
    /\ AtRest
    /\ LET g == GetUserSync(EnvelopeKey, envelope.user)
       IN  que' = IF ~checkInterface(envelope.interface)
                  THEN [QueIdle EXCEPT !.pc = "done", !.nexts = 1]
                  ELSE IF g.kind = "err" THEN QueFail(QueIdle, g.err)
                  ELSE IF g.kind = "hit" THEN QueWithUser(QueIdle, g.user, envelope)
                  ELSE [QueIdle EXCEPT !.pc = "getUser"]
    /\ UNCHANGED <<hooks, sendVars, norm, storeVars, rcptVars, auth, envelope, hdr>>

\* findOne answers getUser, which calls back line 191.
QueUserAnswer ==
    /\ que.pc = "getUser"
    /\ \E answer \in FindUserAnswers(envelope.user) :
         LET r == GetUserReply(answer)
         IN  /\ users' = IF r.cache THEN [users EXCEPT ![EnvelopeKey] = r.user]
                         ELSE users
             /\ que' = IF r.err # NoErr THEN QueFail(que, r.err)
                       ELSE QueWithUser(que, r.user, envelope)
    /\ UNCHANGED <<hooks, sendVars, norm, storeVars, session, rcpt, win, auth, envelope, hdr>>

\* 'readable': the handler takes every chunk the stream has ready (209-215).
QueReadable ==
    /\ que.pc = "stream"
    /\ \E upto \in que.read + 1 .. envelope.body :
         que' = [que EXCEPT
                   !.read = upto,
                   !.chunks = @ \o [i \in 1 .. upto - que.read |->
                                       Chunk("body", <<>>, que.read + i)]]
    /\ UNCHANGED <<hooks, sendVars, norm, storeVars, rcptVars, auth, envelope, hdr>>

\* 'error': the stream fails, or is torn down, before its end (line 216).
QueBodyError ==
    /\ que.pc = "stream"
    /\ que' = QueFail(que, ErrStream)
    /\ UNCHANGED <<hooks, sendVars, norm, storeVars, rcptVars, auth, envelope, hdr>>

\* 'end': everything was read (lines 217-240).
QueBodyEnd ==
    /\ que.pc = "stream"
    /\ que.read = envelope.body
    /\ que' = QueBodyEnded(que, envelope)
    /\ UNCHANGED <<hooks, sendVars, norm, storeVars, rcptVars, auth, envelope, hdr>>

\* setImmediate fires: next() (line 218).
QueImmediate ==
    /\ que.immediate
    /\ que' = [que EXCEPT !.immediate = FALSE, !.pc = "done", !.user = NoDoc,
                          !.nexts = @ + 1]
    /\ UNCHANGED <<hooks, sendVars, norm, storeVars, rcptVars, auth, envelope, hdr>>

\* messageHandler.add calls back: the result is logged (lines 240-248).
QueArchiveAnswer ==
    /\ que.archive = "pending"
    /\ \E outcome \in ArchiveOutcomes : que' = [que EXCEPT !.archive = outcome]
    /\ UNCHANGED <<hooks, sendVars, norm, storeVars, rcptVars, auth, envelope, hdr>>

---------------------------------------------------------------------------
(* sender:headers, lines 253-275 *)

\* app.config.forwarder and app.config.rewriteDomain
forwarder     == "forwarder"
rewriteDomain == <<"s">>

\* The interfaces (sending zones) a delivery may leave through.  Only
\* "feeder" is in app.config.interfaces.
DeliveryInterfaces == {"feeder", "mx", forwarder}

\* A header line of the delivery.
Header(key, value) == [key |-> key, value |-> value]

\* A delivery as the host hands it over: no trace headers, and the route
\* (mx, mxPort, useLMTP, zoneAddress) not overridden.
Delivery(interface, from, to) ==
    [interface |-> interface, from |-> from, to |-> to, headers |-> <<>>,
     mx |-> <<>>, mxPort |-> 0, useLMTP |-> FALSE, zoneAddress |-> Null]

\* The envelope sender of a delivery: none (a bounce), plain, in mixed case,
\* or without '@'.
DeliveryFroms == { <<>>, AddrA, <<"b", "@", "D">>, <<"c">> }

\* srs.js, rewrite(local, domain): an address that is no SRS alias becomes
\* an SRS0 alias, an SRS0 alias becomes the SRS1 alias that guards it, an
\* SRS1 alias stays.  Hash and timestamp are not modelled.
SrsAlias(local, domain) ==
    IF local # <<>> /\ local[1] = "SRS0="
    THEN <<"SRS1=">> \o domain \o <<"=">> \o Tail(local)
    ELSE IF local # <<>> /\ local[1] = "SRS1=" THEN local
    ELSE <<"SRS0=">> \o domain \o <<"=">> \o local

\* What the call of srsRewriter.rewrite may do: return the alias, or throw.
SrsOutcomes(local, domain) ==
    { [threw |-> TRUE, alias |-> <<>>],
      [threw |-> FALSE, alias |-> SrsAlias(local, domain)] }

\* One invocation of the hook.  runs: how often the host has run the hook
\* on this delivery; threw: the rewrite of this run threw; nexts: how often
\* this run has called next.
SndSlot(pc, runs) ==
    [pc |-> pc, err |-> NoErr, runs |-> runs, threw |-> FALSE, nexts |-> 0]

SndIdle == SndSlot("idle", 0)

SndSkipsAnyInterface(del) == del.from = <<>>

\* line 254: nothing to do for this delivery
SndSkips(del) == del.from = <<>> \/ del.interface # forwarder

\* lines 263-265: the trace headers, each added after those already there
SndTrace(del) ==
    del.headers \o << Header("X-Original-Sender", del.from),
                      Header("X-Zone-Forwarded-For", del.from),
                      Header("X-Zone-Forwarded-To", del.to) >>

SndRewrittenThrowLosesSender(del, outcome) ==
    [del EXCEPT !.headers = SndTrace(del),
                !.from = IF outcome.threw THEN <<>>
                         ELSE outcome.alias \o <<"@">> \o rewriteDomain]

\* lines 258-272: the delivery after the trace headers and the rewrite
SndRewritten(del, outcome) ==
    [del EXCEPT !.headers = SndTrace(del),
                !.from = IF outcome.threw THEN del.from
                         ELSE outcome.alias \o <<"@">> \o rewriteDomain]

\* lines 260 and 268: what srsRewriter.rewrite is called with
SndLocal(from)  == SubSeq(from, 1, LastIndexOf(from, "@") - 1)
SndDomain(from) == ToLowerCase(SubSeq(from, LastIndexOf(from, "@") + 1, Len(from)))

\* The host calls the hook; the hook runs to its end (lines 253-275).
SndInvoke ==
    /\ snd.runs < MaxRuns
    /\ fch.pc \in {"idle", "done"}
    /\ IF SndSkips(delivery)
       THEN /\ delivery' = delivery
            /\ snd' = [SndSlot("done", snd.runs + 1) EXCEPT !.nexts = 1]
       ELSE \E outcome \in SrsOutcomes(SndLocal(delivery.from), SndDomain(delivery.from)) :
              /\ delivery' = SndRewritten(delivery, outcome)
              /\ snd' = [SndSlot("done", snd.runs + 1) EXCEPT
                            !.threw = outcome.threw, !.nexts = 1]
    /\ UNCHANGED <<hooks, storeVars, rcptVars, auth, msgVars, config, fch, norm>>

---------------------------------------------------------------------------
(* sender:fetch, lines 324-346 *)

\* app.config with the MX override, and without it (mx not set).
ConfigMx   == [mx |-> <<"lmtp">>, mxPort |-> 24, zoneAddress |-> "local"]
ConfigNoMx == [mx |-> <<>>, mxPort |-> 0, zoneAddress |-> Null]

\* The recipient of a delivery: an address of the directory once it is
\* canonicalized, one as written, and one the directory does not have.
DeliveryTos == { <<"C", "+", "x", "@", "D">>, AddrB, <<"z", "@", "e">> }

\* What findOne may answer for a query by address alone.
FindRecipientAnswers(address) ==
    { [err |-> ErrDb, found |-> FALSE],
      [err |-> NoErr, found |-> \E doc \in dbAddresses : doc.address = address] }

\* One invocation of the hook.
FchSlot(pc, err) == [pc |-> pc, err |-> err, nexts |-> 0]

FchIdle == FchSlot("idle", NoErr)

FchQueryRaw(del) == del.to

\* line 328: the address findOne is asked for
FchQuery(del) == normalizeAddress(del.to)

\* lines 339-342: the route of a local recipient
FchOverride(del, cfg) ==
    [del EXCEPT !.mx = cfg.mx, !.mxPort = cfg.mxPort, !.useLMTP = TRUE,
                !.zoneAddress = cfg.zoneAddress]

\* line 324: the hook is registered only with an MX override configured;
\* the host calls it, and it asks the directory (lines 325-329).
FchInvoke ==
    /\ config.mx # <<>>
    /\ fch.pc = "idle"
    /\ fch' = FchSlot("findOne", NoErr)
    /\ UNCHANGED <<hooks, storeVars, rcptVars, auth, msgVars, config, delivery, snd, norm>>

\* findOne answers (lines 329-344).
FchAnswer ==
    /\ fch.pc = "findOne"
    /\ \E answer \in FindRecipientAnswers(FchQuery(delivery)) :
         IF answer.err # NoErr
         THEN /\ fch' = [fch EXCEPT !.pc = "done", !.err = answer.err, !.nexts = @ + 1]
              /\ delivery' = delivery
         ELSE /\ fch' = [fch EXCEPT !.pc = "done", !.nexts = @ + 1]
              /\ delivery' = IF answer.found THEN FchOverride(delivery, config)
                             ELSE delivery
    /\ UNCHANGED <<hooks, storeVars, rcptVars, auth, msgVars, config, snd, norm>>

---------------------------------------------------------------------------
(* Specifications: one per part of the plugin.  Each starts the state the  *)
(* others use at rest.                                                     *)

\* An envelope as the host hands it over.
Envelope(profile, from, headerFrom, body) ==
    [interface |-> profile.interface, user |-> profile.user, from |-> from,
     headers |-> [from |-> headerFrom, origFrom |-> NoHeader], body |-> body]

\* No delivery in flight, no address in hand.
SendAtRest ==
    /\ config = ConfigNoMx
    /\ delivery = Delivery("feeder", <<>>, <<>>)
    /\ snd = SndIdle
    /\ fch = FchIdle
    /\ norm = NormStart(<<>>)

\* No message in flight.
MsgAtRest ==
    /\ envelope = Envelope(Profiles[1], AddrA, NoHeader, 0)
    /\ hdr = HdrIdle
    /\ que = QueIdle
    /\ SendAtRest

InitRcpt ==
    /\ dbUsers \in [{Alice} -> RcptDocs \cup {NoDoc}]
    /\ dbAddresses = {}
    /\ redisCount = 0
    /\ users = [k \in Keys |-> NoDoc]
    /\ \E f \in [Sessions -> 1 .. Len(Profiles)] :
         /\ \A s, t \in Sessions : s <= t => f[s] <= f[t]
         /\ session = [s \in Sessions |-> Profiles[f[s]]]
    /\ rcpt = [s \in Sessions |-> RcptIdle]
    /\ win = FreshWindow
    /\ auth = [s \in Sessions |-> AuthIdle]
    /\ MsgAtRest
    /\ hooks = {"smtp:rcpt_to"}

NextRcpt ==
    \/ \E s \in Sessions : RcptInvoke(s)
    \/ \E s \in Sessions : RcptUserAnswer(s)
    \/ \E s \in Sessions : RcptCounterFails(s)
    \/ \E s \in Sessions : RcptCounterAnswer(s)
    \/ \E s \in Sessions : RcptImmediate(s)
    \/ \E s \in Sessions : NewMessage(s)
    \/ UpdateUser(RcptDocs)
    \/ WindowExpires

SpecRcpt == InitRcpt /\ [][NextRcpt]_vars

InitAuth ==
    /\ dbUsers = [u \in {Alice} |-> NoDoc]
    /\ dbAddresses = {}
    /\ redisCount = 0
    /\ users = [k \in Keys |-> NoDoc]
    /\ \E f \in [Sessions -> {2, 4}] :
         /\ \A s, t \in Sessions : s <= t => f[s] <= f[t]
         /\ session = [s \in Sessions |-> Profiles[f[s]]]
    /\ rcpt = [s \in Sessions |-> RcptIdle]
    /\ win = FreshWindow
    /\ auth = [s \in Sessions |-> AuthIdle]
    /\ MsgAtRest
    /\ hooks = {"smtp:auth"}

NextAuth ==
    \/ \E s \in Sessions : AuthInvoke(s)
    \/ \E s \in Sessions : AuthAnswer(s)
    \/ \E s \in Sessions : AuthAgain(s)

SpecAuth == InitAuth /\ [][NextAuth]_vars

InitMsg ==
    /\ dbUsers \in [{Alice} -> MsgDocs \cup {NoDoc}]
    /\ dbAddresses = Addresses
    /\ redisCount = 0
    /\ users = [k \in Keys |-> NoDoc]
    /\ session = [s \in Sessions |-> Profiles[1]]
    /\ rcpt = [s \in Sessions |-> RcptIdle]
    /\ win = FreshWindow
    /\ auth = [s \in Sessions |-> AuthIdle]
    /\ \E i \in 1 .. Len(Profiles), from \in EnvelopeFroms,
          headerFrom \in HeaderFroms, body \in 0 .. MaxChunks :
         envelope = Envelope(Profiles[i], from, headerFrom, body)
    /\ hdr = HdrIdle
    /\ que = QueIdle
    /\ SendAtRest
    /\ hooks = {"message:headers", "message:queue"}

NextMsg ==
    \/ HdrInvoke
    \/ HdrUserAnswer
    \/ HdrEnvelopeAnswer
    \/ HdrFromAnswer
    \/ QueInvoke
    \/ QueUserAnswer
    \/ QueReadable
    \/ QueBodyError
    \/ QueBodyEnd
    \/ QueImmediate
    \/ QueArchiveAnswer
    \/ UpdateUser(MsgDocs)

SpecMsg == InitMsg /\ [][NextMsg]_vars

InitSend ==
    /\ dbUsers = [u \in {Alice} |-> NoDoc]
    /\ dbAddresses = Addresses
    /\ redisCount = 0
    /\ users = [k \in Keys |-> NoDoc]
    /\ session = [s \in Sessions |-> Profiles[1]]
    /\ rcpt = [s \in Sessions |-> RcptIdle]
    /\ win = FreshWindow
    /\ auth = [s \in Sessions |-> AuthIdle]
    /\ envelope = Envelope(Profiles[1], AddrA, NoHeader, 0)
    /\ hdr = HdrIdle
    /\ que = QueIdle
    /\ config \in {ConfigMx, ConfigNoMx}
    /\ \E interface \in DeliveryInterfaces, from \in DeliveryFroms, to \in DeliveryTos :
         delivery = Delivery(interface, from, to)
    /\ snd = SndIdle
    /\ fch = FchIdle
    /\ norm = NormStart(<<>>)
    /\ hooks = {"sender:headers", "sender:fetch"}

NextSend ==
    \/ SndInvoke
    \/ FchInvoke
    \/ FchAnswer

SpecSend == InitSend /\ [][NextSend]_vars

InitNorm ==
    /\ dbUsers = [u \in {Alice} |-> NoDoc]
    /\ dbAddresses = {}
    /\ redisCount = 0
    /\ users = [k \in Keys |-> NoDoc]
    /\ session = [s \in Sessions |-> Profiles[1]]
    /\ rcpt = [s \in Sessions |-> RcptIdle]
    /\ win = FreshWindow
    /\ auth = [s \in Sessions |-> AuthIdle]
    /\ envelope = Envelope(Profiles[1], AddrA, NoHeader, 0)
    /\ hdr = HdrIdle
    /\ que = QueIdle
    /\ config = ConfigNoMx
    /\ delivery = Delivery("feeder", <<>>, <<>>)
    /\ snd = SndIdle
    /\ fch = FchIdle
    /\ \E input \in NormInputs : norm = NormStart(input)
    /\ hooks = {}

NextNorm ==
    \/ NormApply
    \/ NormAgain

SpecNorm == InitNorm /\ [][NextNorm]_vars

\* The six hook points, each on its own inputs; the stores answer every
\* call, the body stream ends or fails, and what setImmediate scheduled runs.
\* The messages the two message hooks are called with here: every interface
\* and login, a sender that is not the account's, with and without a From:
\* header, every body length; the account missing, within and over its quota.
InitCallsMsg ==
    /\ dbUsers \in [{Alice} -> { NoDoc, UserDoc(AddrA, <<>>, 2, 0),
                                 UserDoc(AddrA, <<1>>, 2, 0) }]
    /\ dbAddresses = Addresses
    /\ redisCount = 0
    /\ users = [k \in Keys |-> NoDoc]
    /\ session = [s \in Sessions |-> Profiles[1]]
    /\ rcpt = [s \in Sessions |-> RcptIdle]
    /\ win = FreshWindow
    /\ auth = [s \in Sessions |-> AuthIdle]
    /\ \E i \in 1 .. Len(Profiles), body \in 0 .. MaxChunks,
          headerFrom \in { NoHeader,
                           HeaderValue(<<Mailbox("Al", AddrB), Mailbox("Cy", AddrC)>>) } :
         envelope = Envelope(Profiles[i], AddrB, headerFrom, body)
    /\ hdr = HdrIdle
    /\ que = QueIdle
    /\ SendAtRest
    /\ hooks = {"message:headers", "message:queue"}

InitCalls == InitAuth \/ InitRcpt \/ InitCallsMsg \/ InitSend

\* The session whose hooks the host calls.
CallSession == 1

\* The host calls a hook.  The hooks of one transaction run one after another.
Invokes ==
    \/ "smtp:auth" \in hooks /\ (AuthInvoke(CallSession) \/ AuthAgain(CallSession))
    \/ "smtp:rcpt_to" \in hooks /\ RcptInvoke(CallSession)
    \/ "message:headers" \in hooks /\ HdrInvoke
    \/ "message:queue" \in hooks /\ QueInvoke
    \/ "sender:headers" \in hooks /\ SndInvoke
    \/ "sender:fetch" \in hooks /\ FchInvoke

\* What a hook waits for, once the host called it: the answer of a store,
\* the events of the body stream, what setImmediate scheduled.
Answers ==
    \/ AuthAnswer(CallSession)
    \/ RcptUserAnswer(CallSession)
    \/ RcptCounterFails(CallSession)
    \/ RcptCounterAnswer(CallSession)
    \/ RcptImmediate(CallSession)
    \/ HdrUserAnswer
    \/ HdrEnvelopeAnswer
    \/ HdrFromAnswer
    \/ QueUserAnswer
    \/ QueReadable
    \/ QueBodyError
    \/ QueBodyEnd
    \/ QueImmediate
    \/ QueArchiveAnswer
    \/ FchAnswer

NextCalls == Invokes \/ Answers

\* Every external call answers, the body stream ends or fails, and what
\* setImmediate scheduled runs.
SpecCalls == InitCalls /\ [][NextCalls]_vars /\ WF_vars(Answers)

---------------------------------------------------------------------------
(* Properties of smtp:rcpt_to *)

\* The cap of the identity that session s has resolved.
CapOf(s) == users[SessionKey(s)].recipients

\* The step in which the counter store answers the call of session s.
CounterAnswered(s) ==
    /\ rcpt[s].pc = "ttlcounter"
    /\ rcpt'[s].pc # "ttlcounter"
    /\ win'.calls = win.calls + 1

\* C1: in a counter window whose calls all come from identities with the
\* same recipient cap N, the invocation whose call is the k-th of the window
\* completes without error when k <= N, and with an error carrying
\* responseCode 550 (delivered by setImmediate, unchanged) when k = N + 1.
C1_CapThenDeny ==
    [][\A s \in Sessions :
         /\ (CounterAnswered(s) /\ win.limits \subseteq {CapOf(s)})
               => IF win.calls + 1 <= CapOf(s)
                  THEN rcpt'[s].pc = "done" /\ rcpt'[s].err = NoErr
                  ELSE rcpt'[s].pc = "immediate" /\ rcpt'[s].err.responseCode = 550
         /\ (rcpt[s].pc = "immediate" /\ rcpt'[s] # rcpt[s])
               => rcpt'[s].pc = "done" /\ rcpt'[s].err = rcpt[s].err
      ]_vars

\* Witness of C1: with cap MaxCap, the window has answered MaxCap + 1 calls,
\* accepted MaxCap of them and the denial of the last is on its way.
C1_Witness ==
    /\ win.limits = {MaxCap}
    /\ win.calls = MaxCap + 1
    /\ win.accepted = MaxCap
    /\ \E s \in Sessions : rcpt[s].pc = "immediate" /\ rcpt[s].err.responseCode = 550

\* C2: whatever the interleaving of the sessions' invocations, a window whose
\* calls come from identities with one recipient cap never accepts more
\* recipients than that cap, its count never exceeds it, and once it has
\* refused a request it accepts no later one.
C2_AtomicCheckAndIncrement ==
    /\ [](\A n \in win.limits :
            win.limits = {n} => win.accepted <= n /\ redisCount <= n)
    /\ [][(/\ win.rejected
           /\ win'.calls = win.calls + 1
           /\ \E n \in 0 .. MaxCap : win'.limits = {n})
             => win'.accepted = win.accepted /\ redisCount' <= redisCount]_vars

\* Witness of C2: two sessions of the identity are inside the hook at once;
\* one has been refused while the other's call is still in flight.
C2_Witness ==
    \E s, t \in Sessions :
        /\ s # t
        /\ rcpt[s].pc = "immediate"
        /\ rcpt[t].pc = "ttlcounter"
        /\ win.rejected
        /\ win.limits = {CapOf(t)}
        /\ win.accepted = CapOf(t)

\* C7: a lookup or store failure inside smtp:rcpt_to makes the hook complete
\* with that error: a session without a username (Insufficient user info),
\* an identity store error or a missing user, a counter store error.
C7_FailuresPropagate ==
    [][\A s \in Sessions :
         /\ (/\ rcpt[s].pc \in {"idle", "done"}
             /\ rcpt'[s].pc = "done"
             /\ checkInterface(session[s].interface)
             /\ users[SessionKey(s)] = NoDoc
             /\ session[s].user = Null)
               => rcpt'[s].err = ErrInsufficient
         /\ (/\ rcpt[s].pc = "getUser"
             /\ rcpt'[s].pc # "getUser"
             /\ users'[SessionKey(s)] = NoDoc)
               => rcpt'[s].err \in {ErrDb, ErrNotFound}
         /\ (/\ rcpt[s].pc = "ttlcounter"
             /\ rcpt'[s].pc # "ttlcounter"
             /\ win' = win)
               => rcpt'[s].err = ErrRedis
      ]_vars

\* C10: the identity cache is scoped to one message.  Nothing removes or
\* replaces an entry of the cache, so this says that the first smtp:rcpt_to
\* of a message never finds the identity in the cache: it was put there
\* while an earlier message was processed.
C10_CachePerMessage ==
    [][\A s \in Sessions :
         (/\ rcpt[s].pc = "idle"
          /\ rcpt'[s].pc # "idle"
          /\ checkInterface(session[s].interface))
            => users[SessionKey(s)] = NoDoc
      ]_vars

---------------------------------------------------------------------------
(* Properties of smtp:auth *)

\* C8: on a configured interface the hook completes with an error carrying
\* responseCode 535 exactly when authenticate returned no result or a
\* master-scope account with two-factor enabled; in every other case
\* without a store error it completes without error and auth.username is
\* the username the store returned; a store error is passed on as it is.
C8_AuthOutcome ==
    \A s \in Sessions :
        (auth[s].pc = "done" /\ checkInterface(session[s].interface)) =>
            LET a == auth[s].answer
                denied == \/ a.result = NoDoc
                          \/ (a.result.scope = "master" /\ a.result.enabled2fa)
            IN  IF a.err # NoErr THEN auth[s].err = a.err
                ELSE /\ (auth[s].err.responseCode = 535) <=> denied
                     /\ ~denied => /\ auth[s].err = NoErr
                                   /\ auth[s].username = a.result.username

\* Witness of C8: a master-scope account with two-factor enabled was refused
\* with 535 on one session while another session's username was replaced by
\* a store username that differs from the submitted one.
C8_Witness ==
    \E s, t \in Sessions :
        /\ auth[s].pc = "done"
        /\ auth[s].answer.err = NoErr
        /\ auth[s].answer.result # NoDoc
        /\ auth[s].answer.result.scope = "master"
        /\ auth[s].err.responseCode = 535
        /\ auth[t].pc = "done"
        /\ auth[t].err = NoErr
        /\ auth[t].answer.result # NoDoc
        /\ auth[t].username = "alice@d"

---------------------------------------------------------------------------
(* Properties of message:headers and message:queue *)

\* The user resolved for the envelope.
EnvelopeUser == users[EnvelopeKey]

\* The canonical form of `address` is one of the user's addresses.
Authorized(address, user) ==
    \E doc \in dbAddresses :
        doc.address = normalizeAddress(address) /\ doc.user = user._id

\* The hook ran on a configured interface and completed without error.
HdrSucceeded ==
    /\ hdr.pc = "done"
    /\ hdr.err = NoErr
    /\ checkInterface(envelope.interface)

\* The envelope sender the hook must leave behind.
CorrectedSender ==
    IF Authorized(hdr.before.from, EnvelopeUser)
    THEN hdr.before.from
    ELSE EnvelopeUser.address

\* C3: when message:headers has completed for a resolved user, the envelope
\* sender is the user's canonical address if the canonicalized MAIL FROM is
\* not one of the user's addresses, and is unchanged if it is; the hook
\* never completes with a rejection, only with the error of a failed lookup.
C3_EnvelopeSender ==
    (hdr.pc = "done" /\ checkInterface(envelope.interface)) =>
        IF hdr.err = NoErr
        THEN envelope.from = CorrectedSender
        ELSE hdr.err \in {ErrInsufficient, ErrDb, ErrNotFound}

\* Witness of C3: MAIL FROM was somebody else's address and the envelope
\* sender now is the user's own address.
C3_Witness ==
    /\ HdrSucceeded
    /\ hdr.before.from = AddrB
    /\ envelope.from = EnvelopeUser.address

\* C4: when message:headers has completed and the message had a From:
\* header with a first entry, then if that entry's canonicalized address is
\* not one of the user's addresses the From: header holds that entry with
\* the corrected envelope sender as its address and
\* X-WildDuck-Original-From holds the original From: value; if it is one of
\* the user's addresses, neither header has changed.
C4_FromHeader ==
    (HdrSucceeded /\ hdr.headerFrom.present /\ Len(hdr.headerFrom.list) > 0) =>
        LET first == hdr.headerFrom.list[1]
        IN  IF ~Authorized(first.address, EnvelopeUser)
            THEN /\ Len(envelope.headers.from.list) = 1
                 /\ envelope.headers.from.list[1].address = envelope.from
                 /\ envelope.headers.from.list[1].address = CorrectedSender
                 /\ envelope.headers.origFrom = hdr.headerFrom
            ELSE /\ envelope.headers.from = hdr.headerFrom
                 /\ envelope.headers.origFrom = hdr.before.orig

\* Witness of C4: both MAIL FROM and From: were somebody else's address; the
\* header now carries the user's address and the original is preserved.
C4_Witness ==
    /\ HdrSucceeded
    /\ hdr.before.from = AddrB
    /\ hdr.headerFrom.present
    /\ Len(hdr.headerFrom.list) > 0
    /\ hdr.headerFrom.list[1].address = AddrB
    /\ envelope.headers.from.list[1].address = EnvelopeUser.address
    /\ envelope.headers.origFrom = hdr.headerFrom

\* message:queue got hold of the user of the envelope.
QueResolved ==
    /\ que.pc \notin {"idle", "getUser"}
    /\ checkInterface(envelope.interface)
    /\ que.user # NoDoc

\* The hook skipped the archive and completed without error.
QueSkipped ==
    /\ que.pc = "done"
    /\ que.err = NoErr
    /\ ~que.added.called
    /\ que.archive = "none"

\* C5 as stated: for every resolved user whose storageUsed is greater than
\* its quota, a quota of 0 or no quota counting as 0, message:queue performs
\* no archive write and completes without error.
C5_SkipOverAnyQuota ==
    LET quota == IF que.user.quota = <<>> THEN 0 ELSE que.user.quota[1]
    IN  (QueResolved /\ que.user.storageUsed > quota) => QueSkipped

\* C5 as amended: for every resolved user whose quota is set and not 0 and
\* whose storageUsed is greater than it, message:queue performs no archive
\* write and completes without error.
C5_SkipOverSetQuota ==
    (/\ QueResolved
     /\ que.user.quota \notin {<<>>, <<0>>}
     /\ que.user.storageUsed > que.user.quota[1]) => QueSkipped

\* Witness of C5: the hook has completed for a user over a quota of 1.
C5_Witness ==
    /\ QueResolved
    /\ que.user.quota = <<1>>
    /\ que.user.storageUsed > 1
    /\ QueSkipped

\* C6: when the body stream ends the hook schedules its callback and submits
\* the archive write without waiting for it; the callback then fires
\* whether or not the archive has answered, with no error; and the
\* archive's answer, whatever it is, changes nothing but what is logged.
C6_ArchiveInBackground ==
    /\ [](que.pc = "ended" => que.immediate)
    /\ [][/\ (que.pc = "stream" /\ que'.pc = "ended")
                => que'.immediate /\ que'.archive = "pending"
          /\ (que.pc = "ended" /\ que'.pc # "ended")
                => /\ que'.pc = "done"
                   /\ que'.err = NoErr
                   /\ que'.archive = que.archive
          /\ (que.archive = "pending" /\ que'.archive # "pending")
                => /\ que'.archive \in ArchiveOutcomes
                   /\ que'.pc = que.pc
                   /\ que'.err = que.err
                   /\ que'.immediate = que.immediate
         ]_vars

\* Witness of C6: the hook has completed successfully while the archive
\* write is still at work.
C6_Witness ==
    /\ que.pc = "done"
    /\ que.err = NoErr
    /\ que.added.called
    /\ que.archive = "pending"

\* C9: once the identity of an envelope is resolved, every hook of that
\* envelope is handed that same record, the record is never replaced and
\* the identity store is not asked again, whatever happens to the store.
C9_ResolvedOnce ==
    /\ [](/\ hdr.user # NoDoc => hdr.user = EnvelopeUser
          /\ que.user # NoDoc => que.user = EnvelopeUser)
    /\ [][EnvelopeUser # NoDoc =>
             /\ users'[EnvelopeKey] = EnvelopeUser
             /\ hdr'.pc # "getUser"
             /\ que'.pc # "getUser"]_vars

\* Witness of C9: message:headers resolved the user, the store's document
\* changed, and message:queue is at work with the record resolved first.
C9_Witness ==
    /\ hdr.pc = "done"
    /\ hdr.err = NoErr
    /\ que.pc = "stream"
    /\ que.user = EnvelopeUser
    /\ dbUsers[Alice] # EnvelopeUser
    /\ dbUsers[Alice] # NoDoc

---------------------------------------------------------------------------
(* Properties of the sender hooks *)

\* The step in which sender:headers runs on the delivery.
SndRan == snd'.runs = snd.runs + 1

\* The step in which the directory answers sender:fetch.
FchAnswered == fch.pc = "findOne" /\ fch'.pc = "done"

\* The canonical form of `address` is in the local address directory.
InDirectory(address) ==
    \E doc \in dbAddresses : doc.address = normalizeAddress(address)

\* C11, for the two sender hooks: while the interface of the delivery is not
\* in the configured set (and the set has no '*'), no step of a hook asks
\* the directory or changes the delivery.
C11_SkippedOffInterface ==
    [][~checkInterface(delivery.interface) =>
          /\ delivery' = delivery
          /\ fch'.pc = "findOne" => fch.pc = "findOne"]_vars

\* C12: when sender:headers runs on a delivery whose interface is not the
\* forwarder, it calls next once without error and the delivery (sender,
\* recipient, headers) is as it was.
C12_NotForwarderUntouched ==
    [][(SndRan /\ delivery.interface # forwarder) =>
          /\ delivery' = delivery
          /\ snd'.pc = "done"
          /\ snd'.err = NoErr
          /\ snd'.nexts = 1]_vars

\* Witness of C12: the hook has run on a delivery of the feeder interface
\* that has a sender, and no trace header was added.
C12_Witness ==
    /\ snd.runs = 1
    /\ snd.pc = "done"
    /\ delivery.interface = "feeder"
    /\ delivery.from = AddrA
    /\ delivery.headers = <<>>

\* C13: when sender:headers runs on a delivery of the forwarder interface
\* that has a sender, it completes without error; if the rewrite threw, the
\* envelope sender is as it was; if not, the envelope sender is the SRS
\* alias of the old sender, at the rewrite domain.
C13_RewriteOrKeep ==
    [][(SndRan /\ delivery.interface = forwarder /\ delivery.from # <<>>) =>
          /\ snd'.pc = "done"
          /\ snd'.err = NoErr
          /\ IF snd'.threw
             THEN delivery'.from = delivery.from
             ELSE LET at == LastIndexOf(delivery'.from, "@")
                  IN  /\ at > 0
                      /\ SubSeq(delivery'.from, at + 1, Len(delivery'.from))
                            = rewriteDomain
                      /\ SubSeq(delivery'.from, 1, at - 1)
                            = SrsAlias(SndLocal(delivery.from),
                                       SndDomain(delivery.from))]_vars

\* Witness of C13: the rewrite threw on the forwarder interface; the sender
\* is the original one and the hook has completed without error.
C13_Witness ==
    /\ snd.runs = 1
    /\ snd.pc = "done"
    /\ snd.threw
    /\ snd.err = NoErr
    /\ delivery.interface = forwarder
    /\ delivery.from = AddrA
    /\ Len(delivery.headers) = 3

\* C14: without an MX override sender:fetch never runs.  When the directory
\* answers it: on an error the hook completes with that error and the route
\* of the delivery is as it was; if the canonical recipient is in the
\* directory, mx, mxPort and zoneAddress are those of the configuration and
\* useLMTP is true; if it is not, the route is as it was.
C14_LocalRecipientOverride ==
    /\ [](config.mx = <<>> => fch = FchIdle)
    /\ [][FchAnswered =>
            IF fch'.err # NoErr
            THEN fch'.err = ErrDb /\ delivery' = delivery
            ELSE IF InDirectory(delivery.to)
                 THEN delivery' = [delivery EXCEPT !.mx = config.mx,
                                                   !.mxPort = config.mxPort,
                                                   !.useLMTP = TRUE,
                                                   !.zoneAddress = config.zoneAddress]
                 ELSE delivery' = delivery]_vars

\* Witness of C14: a recipient that is in the directory only once it is
\* canonicalized got the configured route.
C14_Witness ==
    /\ fch.pc = "done"
    /\ fch.err = NoErr
    /\ delivery.to = <<"C", "+", "x", "@", "D">>
    /\ delivery.useLMTP
    /\ delivery.mx = ConfigMx.mx
    /\ delivery.mxPort = ConfigMx.mxPort
    /\ delivery.zoneAddress = ConfigMx.zoneAddress

\* C18: a second run of sender:headers on a delivery of the forwarder
\* interface leaves the envelope sender and the trace headers as the first
\* run left them.
C18_SecondRunChangesNothing ==
    [][(SndRan /\ snd.runs >= 1 /\ delivery.interface = forwarder) =>
          /\ delivery'.from = delivery.from
          /\ delivery'.headers = delivery.headers]_vars

---------------------------------------------------------------------------
(* Properties of message:headers and message:queue, continued *)

\* What the archive must be handed for this envelope: the Return-Path and
\* Received lines, the headers, then the chunks of the body in the order of
\* the stream.
WholeMessage(from) ==
    << Chunk("trace", from, 0), Chunk("headers", <<>>, 0) >>
        \o [i \in 1 .. envelope.body |-> Chunk("body", <<>>, i)]

\* C15: messageHandler.add is called only once the body stream has ended,
\* with the Return-Path/Received chunk, then the headers, then every chunk
\* of the body in read order; while the stream has not ended, and after it
\* reported an error, nothing was submitted.
C15_ArchiveWholeOrNothing ==
    /\ que.added.called =>
          /\ que.pc \in {"ended", "done"}
          /\ que.err = NoErr
          /\ que.read = envelope.body
          /\ que.added.raw = WholeMessage(que.added.raw[1].from)
    /\ (que.pc = "stream" \/ que.err # NoErr) =>
          /\ ~que.added.called
          /\ que.archive = "none"

\* Witness of C15: a body of two chunks was read and the whole message
\* submitted.
C15_Witness ==
    /\ que.added.called
    /\ envelope.body = 2
    /\ Len(que.added.raw) = 4

\* C16: when message:queue submits the archive copy of an envelope on which
\* message:headers has completed, the Return-Path of the copy and its
\* meta.from are the envelope sender as message:headers corrected it: the
\* user's address if the sender given was not one of the user's addresses.
C16_ArchivedSender ==
    [][(que.pc = "stream" /\ que'.pc = "ended" /\ HdrSucceeded) =>
          /\ que'.added.called
          /\ que'.added.from = CorrectedSender
          /\ que'.added.raw[1] = Chunk("trace", CorrectedSender, 0)
          /\ ~Authorized(hdr.before.from, EnvelopeUser)
                => que'.added.from = EnvelopeUser.address]_vars

\* Witness of C16: MAIL FROM was somebody else's address, message:headers
\* has run, and the archived copy carries the user's own address.
C16_Witness ==
    /\ HdrSucceeded
    /\ hdr.before.from = AddrB
    /\ ~hdr.before.again
    /\ que.added.called
    /\ que.added.from = EnvelopeUser.address
    /\ que.added.raw[1].from = EnvelopeUser.address
    /\ EnvelopeUser.address # AddrB

\* C17: when message:headers completes without error on an envelope on
\* which it had completed without error before, the envelope sender, the
\* From: header and X-WildDuck-Original-From are as they were when this
\* run began.
C17_SecondRunChangesNothing ==
    (HdrSucceeded /\ hdr.before.again) =>
        /\ envelope.from = hdr.before.from
        /\ envelope.headers.from = hdr.headerFrom
        /\ envelope.headers.origFrom = hdr.before.orig

---------------------------------------------------------------------------
(* Properties of normalizeAddress *)

\* C19: normalizeAddress applied to its own result returns that result.
C19_Idempotent == norm.times = 2 => norm.twice = norm.once

\* For the addresses without a label in ASCII (punycode) form,
\* normalizeAddress applied to its own result returns that result.
IdempotentWithoutAce ==
    (norm.times = 2 /\ \A i \in 1 .. Len(norm.input) :
                          norm.input[i] \notin {"xn--o", "xn--q"})
        => norm.twice = norm.once

---------------------------------------------------------------------------
(* Properties of all hooks *)

\* The invocations of the six hooks.
Invocations ==
    {auth[s] : s \in Sessions} \cup {rcpt[s] : s \in Sessions}
        \cup {hdr, que, snd, fch}

\* An invocation has called next once when it is over, and not before.
CalledOnceWhenDone(slot) ==
    /\ slot.nexts <= 1
    /\ slot.pc = "done" <=> slot.nexts = 1

\* The host has called the hook and the hook has not called next yet.
Running(slot) == slot.pc \notin {"idle", "done"}

\* C20: no invocation of a hook calls next twice, none is over without
\* having called it, and (the stores answering, the body stream ending or
\* failing, and what setImmediate scheduled running) every invocation the
\* host has started comes to call it: again and again no invocation is
\* left running.
C20_NextExactlyOnce ==
    /\ [](\A slot \in Invocations : CalledOnceWhenDone(slot))
    /\ []<>(\A slot \in Invocations : ~Running(slot))

\* Witness of C20: the body stream failed, message:queue has called next
\* once, with the stream's error.
C20_Witness ==
    /\ que.pc = "done"
    /\ que.err = ErrStream
    /\ que.read > 0
    /\ que.nexts = 1

=============================================================================
